---------------------------- MODULE Spec2Model ----------------------------
(***************************************************************************)
(* A model of QuestionSkillLinkModel in core/storage/question/gae_models.py *)
(* (Oppia): the datastore of question<->skill links with create, put and   *)
(* delete, and the two selectors                                           *)
(*   get_question_skill_links_equidistributed_by_skill                     *)
(*   get_question_skill_links_based_on_difficulty_equidistributed_by_skill *)
(*                                                                         *)
(* The module is Python 2 code (from __future__ imports, python_utils,     *)
(* google.appengine.ext.ndb).  Two language facts decide several           *)
(* properties and are modelled as they are:                                *)
(*  - "for x in lst: if c(x): lst.remove(x)" advances the list iterator's  *)
(*    index after a removal, so the element that slides into the freed     *)
(*    slot is never examined (DedupLoop);                                  *)
(*  - a plain dict {} has no defined iteration order in Python 2, so       *)
(*    list(d.values()) is some permutation of the inserted values; from    *)
(*    Python 3.7 on it is the insertion order, which is one of them        *)
(*    (DictValues).                                                        *)
(* Difficulties are Python floats.  A difficulty is written here as its    *)
(* number of tenths (3 is the literal 0.3) and abs(a - b) is taken in      *)
(* IEEE-754 binary64 (AbsDiff).                                            *)
(***************************************************************************)
EXTENDS Integers, Sequences, FiniteSets, TLC

(***************************************************************************)
(* Bounds of the model.                                                    *)
(***************************************************************************)
\* Largest total_question_count a call is made with.
MaxTotal == 3
\* Longest skill_ids list drawn over SkillIds (duplicates allowed).
MaxSkillIds == 2
\* Most links the datastore holds.
MaxLinks == 4
\* Most links the datastore holds when a call is made with a long list
\* (MAX_NUMBER_OF_SKILL_IDS or more skill ids).
MaxLinksLongCall == 1
\* Most instances returned by create() and not yet put.
MaxPending == 1
\* Most links the datastore is filled with by put_multi under SpecStore.
MaxStored == 2

QuestionIds == {"q1", "q2", "q3"}
SkillIds == {"s1", "s2"}
\* Difficulties of the stored links, in tenths.
Difficulties == {3, 5}
\* Difficulties a call asks for, in tenths.
RequestedDifficulties == {3, 4, 5}

\* feconf.MAX_NUMBER_OF_SKILL_IDS (feconf.py is not part of the sources at
\* hand; the value is the one the specification and the error message give).
MAX_NUMBER_OF_SKILL_IDS == 20

(***************************************************************************)
(* Pure helpers.                                                           *)
(***************************************************************************)
Range(s) == {s[k] : k \in 1..Len(s)}

Min(a, b) == IF a < b THEN a ELSE b

\* The slice left out: the whole list.
TakeAll(s, n) == s

\* s[:n] of Python, n >= 0.
Take(s, n) == SubSeq(s, 1, Min(n, Len(s)))

\* All sequences of n distinct elements of S.
RECURSIVE Arrangements(_, _)
Arrangements(S, n) ==
    IF n = 0 THEN {<<>>}
    ELSE UNION {{<<x>> \o t : t \in Arrangements(S \ {x}, n - 1)} : x \in S}

\* All sequences over S of length 0..n.
RECURSIVE SeqsUpTo(_, _)
SeqsUpTo(S, n) ==
    IF n = 0 THEN {<<>>}
    ELSE SeqsUpTo(S, n - 1) \cup [1..n -> S]

\* get_model_id: '%s:%s' % (question_id, skill_id).
GetModelId(question_id, skill_id) == question_id \o ":" \o skill_id

\* The instance cls(id=..., question_id=..., skill_id=..., skill_difficulty=...).
Link(question_id, skill_id, skill_difficulty) ==
    [id |-> GetModelId(question_id, skill_id),
     question_id |-> question_id,
     skill_id |-> skill_id,
     skill_difficulty |-> skill_difficulty]

VARIABLES
    store,                          \* the datastore: the entities, one per key
    pending,                        \* instances create() returned, not yet put
    last_op,                        \* the last datastore operation, its
                                    \* arguments' pair and whether it raised
    pc,                             \* position of the selector call
    selector,                       \* which selector is running
    total_question_count,           \* arguments of the call
    skill_ids,
    difficulty_requested,
    question_count_per_skill,       \* locals of the call
    skill_index,                    \* position of the for loop in skill_ids
    question_skill_link_mapping,    \* the dict, as its values in insertion order
    question_skill_link_models,     \* the result list of the equidistributed selector
    existing_question_ids,
    new_question_skill_link_models,
    contributed,                    \* per position of skill_ids, the links it added
    queries,                        \* number of datastore queries issued by the call
    raised,                         \* the exception the call raised, or "none"
    result                          \* the returned list

storeVars == <<store, pending, last_op>>

callVars ==
    <<pc, selector, total_question_count, skill_ids, difficulty_requested,
      question_count_per_skill, skill_index, question_skill_link_mapping,
      question_skill_link_models, existing_question_ids,
      new_question_skill_link_models, contributed, queries, raised, result>>

vars == <<storeVars, callVars>>

\* No call has been made.
CallIdle ==
    /\ pc = "idle"
    /\ selector = "none"
    /\ total_question_count = 0
    /\ skill_ids = <<>>
    /\ difficulty_requested = 0
    /\ question_count_per_skill = 0
    /\ skill_index = 0
    /\ question_skill_link_mapping = <<>>
    /\ question_skill_link_models = <<>>
    /\ existing_question_ids = <<>>
    /\ new_question_skill_link_models = <<>>
    /\ contributed = <<>>
    /\ queries = 0
    /\ raised = "none"
    /\ result = <<>>

(***************************************************************************)
(* The datastore: create, put_multi, delete_multi.                         *)
(***************************************************************************)
\* A datastore operation as last_op records it.
Op(name, question_id, skill_id, has_raised) ==
    [op |-> name, question_id |-> question_id, skill_id |-> skill_id,
     raised |-> has_raised]

\* Python's None.
None == [none |-> TRUE]

\* cls.get(id, strict=False): the entity stored under the key, or None.
Get(id) ==
    IF \E l \in store : l.id = id
    THEN CHOOSE l \in store : l.id = id
    ELSE None

\* create() without its check of the datastore.
CreateUnchecked(question_id, skill_id, skill_difficulty) ==
    /\ Cardinality(pending \cup {Link(question_id, skill_id, skill_difficulty)})
            <= MaxPending
    /\ pending' = pending \cup {Link(question_id, skill_id, skill_difficulty)}
    /\ last_op' = Op("create", question_id, skill_id, FALSE)
    /\ UNCHANGED store

\* create: raises when the datastore holds an entity under the pair's id,
\* else returns a new instance, which is not stored until it is put.
Create(question_id, skill_id, skill_difficulty) ==
    IF Get(GetModelId(question_id, skill_id)) # None
    THEN /\ last_op' = Op("create", question_id, skill_id, TRUE)
         /\ UNCHANGED <<store, pending>>
    ELSE /\ Cardinality(pending \cup {Link(question_id, skill_id, skill_difficulty)})
                <= MaxPending
         /\ pending' = pending \cup {Link(question_id, skill_id, skill_difficulty)}
         /\ last_op' = Op("create", question_id, skill_id, FALSE)
         /\ UNCHANGED store

\* put_multi_question_skill_links: every instance is written under its key,
\* replacing what the key held; of two instances with one key, one stays.
PutMultiQuestionSkillLinks(question_skill_links) ==
    /\ question_skill_links # {}
    /\ \E written \in SUBSET question_skill_links :
          /\ \A l \in question_skill_links :
                Cardinality({w \in written : w.id = l.id}) = 1
          /\ store' = {l \in store : \A w \in written : w.id # l.id} \cup written
    /\ Cardinality(store') <= MaxStored
    /\ pending' = pending \ question_skill_links
    /\ last_op' = Op("put", "", "", FALSE)

\* delete_multi_question_skill_links: the keys of the given links are deleted.
DeleteMultiQuestionSkillLinks(question_skill_links) ==
    /\ question_skill_links # {}
    /\ store' = {l \in store : \A d \in question_skill_links : d.id # l.id}
    /\ last_op' = Op("delete", "", "", FALSE)
    /\ UNCHANGED pending

CreateStep ==
    /\ \E q \in QuestionIds, s \in SkillIds, d \in Difficulties : Create(q, s, d)
    /\ UNCHANGED callVars

PutStep ==
    /\ \E links \in SUBSET pending : PutMultiQuestionSkillLinks(links)
    /\ UNCHANGED callVars

DeleteStep ==
    /\ \E links \in SUBSET store : DeleteMultiQuestionSkillLinks(links)
    /\ UNCHANGED callVars

InitStore ==
    /\ store = {}
    /\ pending = {}
    /\ last_op = Op("none", "", "", FALSE)
    /\ CallIdle

NextStore == CreateStep \/ PutStep \/ DeleteStep

\* The datastore under create, put and delete; no selector call.
SpecStore == InitStore /\ [][NextStore]_vars

(***************************************************************************)
(* Floats, queries and the list and dict operations the selectors use.     *)
(***************************************************************************)
Abs(x) == IF x < 0 THEN -x ELSE x

\* The rounding of abs(a/10 - b/10) in IEEE-754 binary64, a and b standing
\* for the doubles nearest to the decimal literals: the computed value is
\* |a - b| / 10 + FloatDeviation(a, b) * 2^-57 / 10.  (0.5 - 0.4 gives
\* 0.09999999999999998 and 0.3 - 0.4 gives -0.10000000000000003.)
FloatDeviation(a, b) ==
    LET lo == Min(a, b)
        hi == IF a < b THEN b ELSE a
    IN  CASE lo = hi -> 0
          [] lo = 1 /\ hi = 3 -> -24
          [] lo = 1 /\ hi = 4 -> 64
          [] lo = 1 /\ hi = 5 -> 32
          [] lo = 1 /\ hi = 9 -> 64
          [] lo = 3 /\ hi = 4 -> 48
          [] lo = 3 /\ hi = 5 -> 16
          [] lo = 3 /\ hi = 9 -> 128
          [] lo = 4 /\ hi = 5 -> -32
          [] lo = 4 /\ hi = 9 -> 0
          [] lo = 5 /\ hi = 9 -> 32

\* abs(model.skill_difficulty - difficulty_requested), in units of
\* 2^-57 / 10 with the tenth scaled to 1000 of them: the order of these
\* integers is the order of the computed floats.
AbsDiff(a, b) == Abs(a - b) * 1000 + FloatDeviation(a, b)

\* int(math.ceil(python_utils.divide(float(total), float(count)))) for
\* count > 0: the quotient rounded up.
QuestionCountPerSkill(total, count) == (total + count - 1) \div count

\* len(skill_ids) >= MAX instead of >.
TooManySkillIdsOffByOne(ids) == Len(ids) >= MAX_NUMBER_OF_SKILL_IDS

\* len(skill_ids) > feconf.MAX_NUMBER_OF_SKILL_IDS.
TooManySkillIds(ids) == Len(ids) > MAX_NUMBER_OF_SKILL_IDS

\* The position of an entity in a query's order: .order(-cls.skill_difficulty),
\* .order(cls.skill_difficulty), or no order given.
OrderKey(l, order) ==
    CASE order = "-skill_difficulty" -> -l.skill_difficulty
      [] order = "skill_difficulty" -> l.skill_difficulty
      [] order = "none" -> 0

\* query.fetch(limit): the first `limit` entities of S in the query's order;
\* entities the order does not separate come in any order.
Fetch(S, limit, order) ==
    LET n == Min(limit, Cardinality(S))
    IN  {f \in Arrangements(S, n) :
            /\ \A k \in 1..(n - 1) :
                  OrderKey(f[k], order) <= OrderKey(f[k + 1], order)
            /\ \A x \in S \ Range(f) :
                  n > 0 => OrderKey(f[n], order) <= OrderKey(x, order)}

\* cls.query(cls.skill_id == skill_id).
Query(skill_id) == {l \in store : l.skill_id = skill_id}

\* list.remove(x): the first element equal to x goes.
Remove(models, x) ==
    LET k == CHOOSE k \in 1..Len(models) :
                 models[k] = x /\ \A j \in 1..(k - 1) : models[j] # x
    IN  SubSeq(models, 1, k - 1) \o SubSeq(models, k + 1, Len(models))

\*     for model in models:
\*         if model.question_id in existing:
\*             models.remove(model)
\* from the iterator's position pos on: the iterator yields models[pos] and
\* moves to pos + 1 whether or not the list has shrunk under it.
RECURSIVE DedupLoop(_, _, _)
DedupLoop(models, pos, existing) ==
    IF pos > Len(models) THEN models
    ELSE IF models[pos].question_id \in existing
         THEN DedupLoop(Remove(models, models[pos]), pos + 1, existing)
         ELSE DedupLoop(models, pos + 1, existing)

\* The tier's list assigned where it is to be appended.
ReplacedByTier(models, tier) == tier

\* new_question_skill_link_models.extend(tier)
ExtendedByTier(models, tier) == models \o tier

\* The keys of question_skill_link_mapping.
MappingKeys(mapping) == {mapping[k].question_id : k \in 1..Len(mapping)}

\* sorted(models, key=lambda model: abs(model.skill_difficulty -
\* difficulty_requested)): a stable sort.
RECURSIVE SortedByDistance(_, _)
SortedByDistance(models, difficulty) ==
    IF models = <<>> THEN <<>>
    ELSE LET front == SortedByDistance(SubSeq(models, 1, Len(models) - 1),
                                       difficulty)
             last == models[Len(models)]
             k == Cardinality({j \in 1..Len(front) :
                      AbsDiff(front[j].skill_difficulty, difficulty)
                          <= AbsDiff(last.skill_difficulty, difficulty)})
         IN  SubSeq(front, 1, k) \o <<last>> \o SubSeq(front, k + 1, Len(front))

\* A merge that overwrites: mapping[model.question_id] = model for every model.
RECURSIVE MergeOverwriting(_, _)
MergeOverwriting(mapping, models) ==
    IF models = <<>> THEN mapping
    ELSE MergeOverwriting(
             SelectSeq(mapping, LAMBDA m : m.question_id # Head(models).question_id)
                 \o <<Head(models)>>,
             Tail(models))

\*     for model in models:
\*         if model.question_id not in question_skill_link_mapping:
\*             question_skill_link_mapping[model.question_id] = model
RECURSIVE MergeIntoMapping(_, _)
MergeIntoMapping(mapping, models) ==
    IF models = <<>> THEN mapping
    ELSE MergeIntoMapping(
             IF Head(models).question_id \in MappingKeys(mapping)
             THEN mapping
             ELSE Append(mapping, Head(models)),
             Tail(models))

\* list(question_skill_link_mapping.values()) of a Python 2 dict: the values
\* in the hash table's order, which is any order as far as the ids go.
DictValues(mapping) == Arrangements(Range(mapping), Len(mapping))


(***************************************************************************)
(* The calls.                                                              *)
(***************************************************************************)
\* The list [s1, s2, s1, s2, ...] of n skill ids.
LongList(n) == [k \in 1..n |-> IF k % 2 = 1 THEN "s1" ELSE "s2"]

\* The skill_ids a call is made with: the empty list, every list of up to
\* MaxSkillIds ids that starts with s1 (the datastores are drawn from a set
\* that is closed under exchanging s1 and s2, so the lists that start with s2
\* add nothing), and the lists of MAX_NUMBER_OF_SKILL_IDS and one more ids.
SkillIdLists ==
    {ids \in SeqsUpTo(SkillIds, MaxSkillIds) : ids # <<>> => ids[1] = "s1"}
        \cup {LongList(MAX_NUMBER_OF_SKILL_IDS), LongList(MAX_NUMBER_OF_SKILL_IDS + 1)}

\* A list longer than MaxSkillIds that passes the length check is run against
\* a small datastore and for MaxTotal questions only.
CallInBounds(total, ids) ==
    (Len(ids) > MaxSkillIds /\ ~TooManySkillIds(ids))
        => (Cardinality(store) <= MaxLinksLongCall /\ total = MaxTotal)

\* python_utils.divide(number1, number2) raises ZeroDivisionError when
\* number2 is 0.0, whatever number1 is (python_utils.py is not part of the
\* sources at hand; the behaviour is the one the specification gives, and that
\* of Python's division of floats).
DivideRaises(number2) == number2 = 0

\* A divisor guarded against the empty list: max(len(skill_ids), 1).
DivisorAtLeastOne(ids) == IF Len(ids) = 0 THEN 1 ELSE Len(ids)

\* float(len(skill_ids)), the divisor of lines 310 and 403.
Divisor(ids) == Len(ids)

\* Lines 305-312 and 397-405: the check of len(skill_ids), the quota and the
\* empty accumulators; the for loop that follows has no pass over an empty
\* list.
Enter(name, total, ids, difficulty, first) ==
    /\ pc = "idle"
    /\ CallInBounds(total, ids)
    /\ selector' = name
    /\ total_question_count' = total
    /\ skill_ids' = ids
    /\ difficulty_requested' = difficulty
    /\ IF TooManySkillIds(ids)
       THEN /\ raised' = "Exception"
            /\ pc' = "raised"
            /\ question_count_per_skill' = 0
            /\ skill_index' = 0
       ELSE IF DivideRaises(Divisor(ids))
       THEN /\ raised' = "ZeroDivisionError"
            /\ pc' = "raised"
            /\ question_count_per_skill' = 0
            /\ skill_index' = 0
       ELSE /\ raised' = "none"
            /\ pc' = IF Len(ids) = 0 THEN "return" ELSE first
            /\ question_count_per_skill' =
                  QuestionCountPerSkill(total, Divisor(ids))
            /\ skill_index' = 1
    /\ UNCHANGED <<question_skill_link_mapping, question_skill_link_models,
                   existing_question_ids, new_question_skill_link_models,
                   contributed, queries, result>>
    /\ UNCHANGED storeVars

\* The for loop moves to the next skill id, or the function to its return.
NextSkill(again) ==
    /\ skill_index' = skill_index + 1
    /\ pc' = IF skill_index < Len(skill_ids) THEN again ELSE "return"

(***************************************************************************)
(* get_question_skill_links_equidistributed_by_skill                       *)
(***************************************************************************)
CallEquidistributed ==
    \E total \in 0..MaxTotal, ids \in SkillIdLists :
        Enter("equidistributed", total, ids, 0, "loop")

\* The extension of the result list put in front of it.
ExtendedInFront(models, new, count) == Take(new, count) \o models

\* question_skill_link_models.extend(new[:question_count_per_skill])
Extended(models, new, count) == models \o Take(new, count)

\* existing_question_ids.extend([model.question_id for model in new])
ExistingExtended(existing, new) ==
    existing \o [k \in 1..Len(new) |-> new[k].question_id]

\* One pass of the for loop, lines 407-423.
EquidistributedSkill ==
    /\ pc = "loop"
    /\ \E fetched \in Fetch(Query(skill_ids[skill_index]),
                            question_count_per_skill * 2, "none") :
          LET new == DedupLoop(fetched, 1, Range(existing_question_ids))
          IN  /\ new_question_skill_link_models' = new
              /\ question_skill_link_models' =
                    Extended(question_skill_link_models, new,
                             question_count_per_skill)
              /\ existing_question_ids' =
                    ExistingExtended(existing_question_ids, new)
              /\ contributed' =
                    Append(contributed, Take(new, question_count_per_skill))
    /\ queries' = queries + 1
    /\ NextSkill("loop")
    /\ UNCHANGED <<selector, total_question_count, skill_ids,
                   difficulty_requested, question_count_per_skill,
                   question_skill_link_mapping, raised, result>>
    /\ UNCHANGED storeVars

\* return question_skill_link_models
EquidistributedReturn ==
    /\ pc = "return"
    /\ selector = "equidistributed"
    /\ result' = question_skill_link_models
    /\ pc' = "returned"
    /\ UNCHANGED <<selector, total_question_count, skill_ids,
                   difficulty_requested, question_count_per_skill, skill_index,
                   question_skill_link_mapping, question_skill_link_models,
                   existing_question_ids, new_question_skill_link_models,
                   contributed, queries, raised>>
    /\ UNCHANGED storeVars

(***************************************************************************)
(* get_question_skill_links_based_on_difficulty_equidistributed_by_skill   *)
(***************************************************************************)
CallBasedOnDifficulty ==
    \E total \in 0..MaxTotal, ids \in SkillIdLists, difficulty \in RequestedDifficulties :
        Enter("difficulty", total, ids, difficulty, "equal")

\* The test with <= for <: the next tier is asked for also when the quota is
\* just met.
AtMostQuota(models, count) == Len(models) <= count

\* len(new_question_skill_link_models) < question_count_per_skill, the test
\* of lines 328 and 343-344.
FewerThanQuota(models, count) == Len(models) < count

unchangedInTier ==
    UNCHANGED <<selector, total_question_count, skill_ids, difficulty_requested,
                question_count_per_skill, skill_index,
                question_skill_link_mapping, question_skill_link_models,
                existing_question_ids, contributed, raised, result, storeVars>>

\* Lines 317-328: the links of exactly the requested difficulty.
FetchEqual ==
    /\ pc = "equal"
    /\ \E fetched \in
            Fetch({l \in Query(skill_ids[skill_index]) :
                       l.skill_difficulty = difficulty_requested},
                  question_count_per_skill * 2, "none") :
          new_question_skill_link_models' =
              DedupLoop(fetched, 1, MappingKeys(question_skill_link_mapping))
    /\ queries' = queries + 1
    /\ pc' = IF FewerThanQuota(new_question_skill_link_models',
                               question_count_per_skill)
             THEN "easier" ELSE "truncate"
    /\ unchangedInTier

\* Lines 331-343: the easier links, by decreasing difficulty.
FetchEasier ==
    /\ pc = "easier"
    /\ \E fetched \in
            Fetch({l \in Query(skill_ids[skill_index]) :
                       l.skill_difficulty < difficulty_requested},
                  question_count_per_skill, "-skill_difficulty") :
          new_question_skill_link_models' =
              ExtendedByTier(
                  new_question_skill_link_models,
                  DedupLoop(fetched, 1, MappingKeys(question_skill_link_mapping)))
    /\ queries' = queries + 1
    /\ pc' = IF FewerThanQuota(new_question_skill_link_models',
                               question_count_per_skill)
             THEN "harder" ELSE "sort"
    /\ unchangedInTier

\* Lines 348-358: the harder links, by increasing difficulty.
FetchHarder ==
    /\ pc = "harder"
    /\ \E fetched \in
            Fetch({l \in Query(skill_ids[skill_index]) :
                       l.skill_difficulty > difficulty_requested},
                  question_count_per_skill, "skill_difficulty") :
          new_question_skill_link_models' =
              ExtendedByTier(
                  new_question_skill_link_models,
                  DedupLoop(fetched, 1, MappingKeys(question_skill_link_mapping)))
    /\ queries' = queries + 1
    /\ pc' = "sort"
    /\ unchangedInTier

\* Lines 360-372: the sort (only when the easier links were asked for), the
\* cut to the quota and the merge into the mapping.
SortTruncateMerge ==
    /\ pc \in {"sort", "truncate"}
    /\ LET sorted == IF pc = "sort"
                     THEN SortedByDistance(new_question_skill_link_models,
                                           difficulty_requested)
                     ELSE new_question_skill_link_models
           truncated == Take(sorted, question_count_per_skill)
       IN  /\ new_question_skill_link_models' = truncated
           /\ question_skill_link_mapping' =
                 MergeIntoMapping(question_skill_link_mapping, truncated)
           /\ contributed' =
                 Append(contributed,
                        SubSeq(question_skill_link_mapping',
                               Len(question_skill_link_mapping) + 1,
                               Len(question_skill_link_mapping')))
    /\ NextSkill("equal")
    /\ UNCHANGED <<selector, total_question_count, skill_ids,
                   difficulty_requested, question_count_per_skill,
                   question_skill_link_models, existing_question_ids, queries,
                   raised, result>>
    /\ UNCHANGED storeVars

\* return list(question_skill_link_mapping.values())
BasedOnDifficultyReturn ==
    /\ pc = "return"
    /\ selector = "difficulty"
    /\ result' \in DictValues(question_skill_link_mapping)
    /\ pc' = "returned"
    /\ UNCHANGED <<selector, total_question_count, skill_ids,
                   difficulty_requested, question_count_per_skill, skill_index,
                   question_skill_link_mapping, question_skill_link_models,
                   existing_question_ids, new_question_skill_link_models,
                   contributed, queries, raised>>
    /\ UNCHANGED storeVars

(***************************************************************************)
(* The selectors over every datastore within the bounds.                   *)
(***************************************************************************)
Pairs == QuestionIds \X SkillIds

\* The datastores: at most one link per (question_id, skill_id), at most
\* MaxLinks links.
Stores ==
    UNION {{{Link(p[1], p[2], f[p]) : p \in P} : f \in [P -> Difficulties]} :
              P \in {P \in SUBSET Pairs : Cardinality(P) <= MaxLinks}}

Init ==
    /\ store \in Stores
    /\ pending = {}
    /\ last_op = Op("none", "", "", FALSE)
    /\ CallIdle

Next ==
    \/ CallEquidistributed
    \/ EquidistributedSkill
    \/ EquidistributedReturn
    \/ CallBasedOnDifficulty
    \/ FetchEqual
    \/ FetchEasier
    \/ FetchHarder
    \/ SortTruncateMerge
    \/ BasedOnDifficultyReturn

Spec == Init /\ [][Next]_vars


(***************************************************************************)
(* The selectors over the datastore of the specification's scenario:       *)
(* s1 linked to two questions at 0.3 and 0.5, s2 to three others at 0.1,   *)
(* 0.4 and 0.9.                                                            *)
(***************************************************************************)
ScenarioStore ==
    {Link("q1", "s1", 3), Link("q2", "s1", 5),
     Link("q3", "s2", 1), Link("q4", "s2", 4), Link("q5", "s2", 9)}

InitScenario ==
    /\ store = ScenarioStore
    /\ pending = {}
    /\ last_op = Op("none", "", "", FALSE)
    /\ CallIdle

SpecScenario == InitScenario /\ [][Next]_vars

(***************************************************************************)
(* Properties.                                                             *)
(***************************************************************************)
\* The call of the named selector has returned.
Returned(name) == pc = "returned" /\ selector = name

DistinctQuestionIds(models) ==
    \A i, j \in 1..Len(models) :
        i # j => models[i].question_id # models[j].question_id

\* Where x is in a list that holds it.
Position(models, x) == CHOOSE k \in 1..Len(models) : models[k] = x

RECURSIVE Flatten(_)
Flatten(lists) ==
    IF lists = <<>> THEN <<>> ELSE Head(lists) \o Flatten(Tail(lists))

\* The question ids chosen for the skills before position i of skill_ids.
ChosenBefore(i) ==
    UNION {{contributed[j][k].question_id : k \in 1..Len(contributed[j])} :
              j \in 1..(i - 1)}

\* C1: no question_id appears twice in the list
\* get_question_skill_links_equidistributed_by_skill returns, also when a
\* question is linked to several of the given skills.  Stated for lists of
\* pairwise different skill ids, where a question can only come twice through
\* its links to two of the skills.
C1_NoQuestionTwice ==
    (/\ Returned("equidistributed")
     /\ \A i, j \in 1..Len(skill_ids) : i # j => skill_ids[i] # skill_ids[j])
    => DistinctQuestionIds(result)

\* C2: no question_id appears twice in the result of the difficulty-ranked
\* selector, and a link that entered the mapping for an earlier skill stays
\* where it is: a later skill neither adds the question again nor replaces
\* its link.
C2_ChosenOnceAndKept ==
    /\ [](Returned("difficulty") =>
            /\ DistinctQuestionIds(result)
            /\ Range(result) = Range(question_skill_link_mapping)
            /\ Len(result) = Len(question_skill_link_mapping))
    /\ [][\A k \in 1..Len(question_skill_link_mapping) :
            /\ k <= Len(question_skill_link_mapping')
            /\ question_skill_link_mapping'[k] = question_skill_link_mapping[k]]_vars

\* A question linked to two of the given skills was chosen for the earlier
\* one; its link to the later one is not in the result.
C2_Witness ==
    /\ Returned("difficulty")
    /\ \E i, j \in 1..Len(skill_ids) :
          /\ i < j
          /\ skill_ids[i] # skill_ids[j]
          /\ \E l \in Range(contributed[i]), m \in Query(skill_ids[j]) :
                /\ m.question_id = l.question_id
                /\ l \in Range(result)
                /\ m \notin Range(result)

\* C3: a call of either selector with more than 20 skill ids raises before
\* any query is issued and returns nothing; a call with exactly 20 skill ids
\* is accepted and queries the datastore for each of them.
C3_LengthLimit ==
    selector # "none" =>
        /\ Len(skill_ids) > 20 =>
              /\ pc = "raised"
              /\ raised = "Exception"
              /\ queries = 0
              /\ result = <<>>
              /\ question_skill_link_mapping = <<>>
              /\ question_skill_link_models = <<>>
        /\ Len(skill_ids) = 20 =>
              /\ pc # "raised"
              /\ raised = "none"
              /\ pc \in {"return", "returned"} => queries >= 20

\* A call with 21 skill ids has raised.
C3_Witness ==
    /\ selector = "difficulty"
    /\ Len(skill_ids) = 21
    /\ pc = "raised"

\* C4: in the result of the difficulty-ranked selector the links of one skill,
\* in result order, have a non-decreasing
\* abs(skill_difficulty - difficulty_requested).
C4_DistanceNonDecreasing ==
    Returned("difficulty") =>
        \A i, j \in 1..Len(result) :
            (i < j /\ result[i].skill_id = result[j].skill_id) =>
                AbsDiff(result[i].skill_difficulty, difficulty_requested)
                    <= AbsDiff(result[j].skill_difficulty, difficulty_requested)

\* C5: the result of the equidistributed selector is grouped by the input
\* order of skill_ids: it is the links contributed for skill_ids[1], then
\* those for skill_ids[2], and so on, each contribution made of links of its
\* own skill.
C5_GroupedBySkillOrder ==
    Returned("equidistributed") =>
        /\ Len(contributed) = Len(skill_ids)
        /\ result = Flatten(contributed)
        /\ \A i \in 1..Len(contributed) :
              \A k \in 1..Len(contributed[i]) :
                  contributed[i][k].skill_id = skill_ids[i]

\* Two different skills have each contributed to the returned list.
C5_Witness ==
    /\ Returned("equidistributed")
    /\ Len(skill_ids) >= 2
    /\ skill_ids[1] # skill_ids[2]
    /\ contributed[1] # <<>>
    /\ contributed[2] # <<>>

\* C6: the difficulty-ranked selector returns the mapping's values in
\* insertion order, so the result follows the input order of skill_ids: for
\* i < j every link contributed for skill_ids[i] precedes every link
\* contributed for skill_ids[j].
C6_InsertionOrder ==
    Returned("difficulty") =>
        \A i, j \in 1..Len(contributed) :
            i < j =>
                \A l \in Range(contributed[i]), m \in Range(contributed[j]) :
                    Position(result, l) < Position(result, m)

\* C7: for both selectors the quota is ceil(total_question_count /
\* len(skill_ids)), each skill contributes at most quota links, and the
\* result has at most quota * len(skill_ids) links.
C7_QuotaBound ==
    (selector # "none" /\ pc # "raised") =>
        /\ question_count_per_skill * Len(skill_ids) >= total_question_count
        /\ (question_count_per_skill - 1) * Len(skill_ids) < total_question_count
        /\ \A i \in 1..Len(contributed) :
              Len(contributed[i]) <= question_count_per_skill
        /\ pc = "returned" =>
              /\ Len(result) = Len(Flatten(contributed))
              /\ Len(result) <= question_count_per_skill * Len(skill_ids)

\* A skill with more links than the quota has contributed exactly the quota.
C7_Witness ==
    /\ pc = "returned"
    /\ question_count_per_skill > 0
    /\ \E i \in 1..Len(skill_ids) :
          /\ Cardinality(Query(skill_ids[i])) > question_count_per_skill
          /\ Len(contributed[i]) = question_count_per_skill

\* C8: create(question_id, skill_id, skill_difficulty) raises and leaves the
\* datastore as it is whenever the datastore holds a link for the pair; and
\* under create, put and delete the datastore holds at most one link per pair.
C8_OneLinkPerPair ==
    /\ [](\A l, m \in store :
            (l.question_id = m.question_id /\ l.skill_id = m.skill_id) => l = m)
    /\ [][(/\ last_op'.op = "create"
           /\ \E l \in store : /\ l.question_id = last_op'.question_id
                               /\ l.skill_id = last_op'.skill_id)
          => (last_op'.raised /\ store' = store)]_vars

\* create has raised for a pair the datastore holds.
C8_Witness ==
    /\ last_op.op = "create"
    /\ last_op.raised
    /\ \E l \in store : /\ l.question_id = last_op.question_id
                        /\ l.skill_id = last_op.skill_id

\* C9: in the difficulty-ranked selector, when a skill has fewer links in the
\* datastore than the quota, each of its links whose question was not chosen
\* for an earlier skill is in the result, whatever its difficulty.
C9_UnderfilledSkillReturnsAll ==
    Returned("difficulty") =>
        \A i \in 1..Len(skill_ids) :
            Cardinality(Query(skill_ids[i])) < question_count_per_skill =>
                \A l \in Query(skill_ids[i]) :
                    l.question_id \notin ChosenBefore(i) => l \in Range(result)

\* A skill with fewer links than the quota has an easier and a harder link,
\* and no exact one, in the result.
C9_Witness ==
    /\ Returned("difficulty")
    /\ \E i \in 1..Len(skill_ids) :
          /\ Cardinality(Query(skill_ids[i])) < question_count_per_skill
          /\ \E l, m \in Query(skill_ids[i]) :
                /\ l.skill_difficulty < difficulty_requested
                /\ m.skill_difficulty > difficulty_requested
                /\ {l, m} \subseteq Range(result)

\* C10: in the scenario (skill_ids = [s1, s2], total_question_count = 3,
\* difficulty_requested = 0.4) the difficulty-ranked selector returns s1's
\* links in the order [0.5, 0.3], then s2's 0.4 link, then s2's 0.1 or 0.9
\* link.
C10_ScenarioResult ==
    (/\ Returned("difficulty")
     /\ store = ScenarioStore
     /\ skill_ids = <<"s1", "s2">>
     /\ total_question_count = 3
     /\ difficulty_requested = 4)
    => /\ Len(result) = 4
       /\ result[1] = Link("q2", "s1", 5)
       /\ result[2] = Link("q1", "s1", 3)
       /\ result[3] = Link("q4", "s2", 4)
       /\ result[4] \in {Link("q3", "s2", 1), Link("q5", "s2", 9)}

\* The links of a list whose question is a key of the mapping.
ChosenIn(models, mapping) ==
    {k \in 1..Len(models) : models[k].question_id \in MappingKeys(mapping)}

\* C11: in the difficulty-ranked selector the candidate list of each tier
\* (equal, easier, harder) holds, after its deduplication loop, no link whose
\* question_id is a key of the running mapping, whatever the fetched list;
\* hence no slot of the skill's quota (the list cut to the quota) is taken by
\* an already chosen question.
C11_TierHoldsNoChosenLink ==
    [][/\ pc = "equal" =>
             ChosenIn(new_question_skill_link_models',
                      question_skill_link_mapping) = {}
       /\ pc \in {"easier", "harder"} =>
             ChosenIn(SubSeq(new_question_skill_link_models',
                             Len(new_question_skill_link_models) + 1,
                             Len(new_question_skill_link_models')),
                      question_skill_link_mapping) = {}
       /\ pc \in {"sort", "truncate"} =>
             ChosenIn(new_question_skill_link_models',
                      question_skill_link_mapping) = {}]_vars

\* The question ids of the links of a list.
QuestionIdsOf(models) == {models[k].question_id : k \in 1..Len(models)}

\* C12: in get_question_skill_links_equidistributed_by_skill the
\* deduplication discards a fetched link only if its question_id was selected
\* for an earlier skill, that is, is in the result list; a question fetched
\* for an earlier skill and cut off by the quota stays eligible.  Stated for
\* pairwise different skill ids and the passes in which the skill has no more
\* links than the fetch limit, so that the fetched links are the skill's
\* links: each of them that is not in the list after the loop has its
\* question in the result built so far.
C12_DiscardedOnlyIfSelected ==
    [][(/\ pc = "loop"
        /\ \A i, j \in 1..Len(skill_ids) : i # j => skill_ids[i] # skill_ids[j]
        /\ Cardinality(Query(skill_ids[skill_index]))
               <= question_count_per_skill * 2)
       => \A l \in Query(skill_ids[skill_index]) :
              l \notin Range(new_question_skill_link_models')
                  => l.question_id \in QuestionIdsOf(question_skill_link_models)]_vars

\* The positions of a list that hold a link harder than requested.
HarderIn(models) ==
    {k \in 1..Len(models) : models[k].skill_difficulty > difficulty_requested}

\* C13: in the difficulty-ranked selector the tiers of a skill are queried
\* in the order equal, easier, harder; the easier query is issued only if
\* fewer than quota equal candidates remain after deduplication, the harder
\* query only if the equal and easier candidates together are still fewer
\* than quota; so a harder link is among a skill's candidates, and hence
\* among its contribution to the result, only when its equal and easier
\* candidates are fewer than quota.
C13_TierOrder ==
    /\ [](pc \in {"easier", "harder"} =>
            Len(new_question_skill_link_models) < question_count_per_skill)
    /\ [](pc = "truncate" =>
            \A k \in 1..Len(new_question_skill_link_models) :
                new_question_skill_link_models[k].skill_difficulty
                    = difficulty_requested)
    /\ [](pc = "sort" =>
            (HarderIn(new_question_skill_link_models) # {} =>
                Len(new_question_skill_link_models)
                    - Cardinality(HarderIn(new_question_skill_link_models))
                        < question_count_per_skill))
    /\ [](Returned("difficulty") => Range(result) = Range(Flatten(contributed)))
    /\ [][/\ pc' = "easier" => pc = "equal"
          /\ pc' = "harder" => pc = "easier"
          /\ pc \in {"sort", "truncate"} =>
                Range(contributed'[Len(contributed')])
                    \subseteq Range(new_question_skill_link_models)]_vars

\* A skill with a quota of one has contributed an easier link, and a harder
\* link of the skill that is closer to the requested difficulty, and whose
\* question is not in the result, was not asked for.
C13_Witness ==
    /\ Returned("difficulty")
    /\ Len(skill_ids) = 1
    /\ queries = 2
    /\ \E l \in Range(contributed[1]), m \in Query(skill_ids[1]) :
          /\ l.skill_difficulty < difficulty_requested
          /\ m.skill_difficulty > difficulty_requested
          /\ AbsDiff(m.skill_difficulty, difficulty_requested)
                < AbsDiff(l.skill_difficulty, difficulty_requested)
          /\ m.question_id \notin QuestionIdsOf(result)

\* C14: a call of either selector with an empty skill_ids list fails with a
\* ZeroDivisionError while the quota is computed, before any datastore query
\* is issued; it never returns, so never returns an empty list.
C14_EmptySkillIdsRaises ==
    (selector # "none" /\ skill_ids = <<>>) =>
        /\ pc = "raised"
        /\ raised = "ZeroDivisionError"
        /\ queries = 0
        /\ result = <<>>
        /\ question_skill_link_mapping = <<>>
        /\ question_skill_link_models = <<>>

\* A call for some questions with an empty skill_ids list has raised.
C14_Witness ==
    /\ selector = "equidistributed"
    /\ skill_ids = <<>>
    /\ total_question_count > 0
    /\ pc = "raised"
    /\ raised = "ZeroDivisionError"

=============================================================================
